---- MODULE Spec2Model ----
(***************************************************************************)
(* Session-scoped workbook editing model of general_excel_analyzer.py.    *)
(*                                                                         *)
(* One step of the model is one Streamlit script run: the user interacts   *)
(* with one widget, main() runs top to bottom and the handler of the one   *)
(* pressed button executes.  DataFrames are objects: the model keeps a     *)
(* heap of table objects and the two session dictionaries map sheet names  *)
(* to object ids, so that aliasing and in-place assignment are visible.    *)
(***************************************************************************)
EXTENDS Integers, Sequences, FiniteSets, TLC

VARIABLES
    uploaded_file,   \* st.session_state.uploaded_file (None or the file held)
    sheets_data,     \* st.session_state.sheets_data : sheet name -> object id
    sheet_names,     \* st.session_state.sheet_names : sequence of sheet names
    current_sheet,   \* st.session_state.current_sheet (None or a sheet name)
    edited_data,     \* st.session_state.edited_data : sheet name -> object id
    heap,            \* the DataFrame objects : object id -> table
    composed,        \* history: per sheet, the transforms applied so far, composed
    nops             \* history: presses of a button that computes a new table

vars == <<uploaded_file, sheets_data, sheet_names, current_sheet, edited_data,
          heap, composed, nops>>

session == <<uploaded_file, sheets_data, sheet_names, current_sheet, edited_data>>

(***************************************************************************)
(* Bounds of the model.                                                    *)
(***************************************************************************)
\* presses of a button that computes a new table, explored per session
MaxOps == 2

(***************************************************************************)
(* Generic helpers.                                                        *)
(***************************************************************************)
None == "None"

EmptyMap == [x \in {} |-> 0]

Range(f) == {f[x] : x \in DOMAIN f}

Min(S) == CHOOSE x \in S : \A y \in S : x <= y

MapPut(f, k, v) == [x \in (DOMAIN f) \cup {k} |-> IF x = k THEN v ELSE f[x]]

Restrict(f, S) == [x \in (DOMAIN f) \cap S |-> f[x]]

SeqToSet(s) == {s[i] : i \in 1..Len(s)}

\* the subsequence of s at the positions satisfying keep, order preserved
RECURSIVE SelectIdx(_, _, _)
SelectIdx(s, keep, i) ==
    IF i > Len(s) THEN <<>>
    ELSE (IF i \in keep THEN <<s[i]>> ELSE <<>>) \o SelectIdx(s, keep, i + 1)

(***************************************************************************)
(* Cells, columns and tables (pandas DataFrame values).                    *)
(* A cell is a number, a text, a boolean or NaN; numbers are integers and  *)
(* the column's dtype says whether they are int64 or float64.              *)
(***************************************************************************)
Num(i) == [k |-> "num", n |-> i, s |-> ""]
Str(x) == [k |-> "str", n |-> 0, s |-> x]
Bool(b) == [k |-> "bool", n |-> IF b THEN 1 ELSE 0, s |-> ""]
NaN == [k |-> "nan", n |-> 0, s |-> ""]

IsNull(c) == c.k = "nan"

Table(cols, dtypes, rows) == [cols |-> cols, dtypes |-> dtypes, rows |-> rows]

NRows(t) == Len(t.rows)

ColIndex(t, c) == CHOOSE i \in 1..Len(t.cols) : t.cols[i] = c

HasColumn(t, c) == c \in SeqToSet(t.cols)

Dtype(t, c) == t.dtypes[ColIndex(t, c)]

Cell(t, r, c) == t.rows[r][ColIndex(t, c)]

\* the table with rows at the positions keep only (boolean-mask indexing)
KeepRows(t, keep) == [t EXCEPT !.rows = SelectIdx(t.rows, keep, 1)]

(***************************************************************************)
(* Text of a cell and back: astype(str), pd.to_numeric, the boolean map.   *)
(***************************************************************************)
IntText(i) == <<"0", "1", "2", "3", "4", "5", "6", "7", "8", "9">>[i + 1]

FloatText(i) ==
    <<"0.0", "1.0", "2.0", "3.0", "4.0", "5.0", "6.0", "7.0", "8.0", "9.0">>[i + 1]

Digits == 0..9

\* str(value) of one cell of a column of dtype d (line 264)
astype_str(d, c) ==
    CASE c.k = "str" -> c.s
      [] c.k = "nan" -> "nan"
      [] c.k = "bool" -> (IF c.n = 1 THEN "True" ELSE "False")
      [] c.k = "num" -> (IF d = "float64" THEN FloatText(c.n) ELSE IntText(c.n))

ParsesInt(s) == \E i \in Digits : IntText(i) = s

ParsesFloat(s) == \E i \in Digits : FloatText(i) = s

\* pd.to_numeric(errors='coerce') of one text (line 298)
to_numeric(s) ==
    IF ParsesInt(s) THEN Num(CHOOSE i \in Digits : IntText(i) = s)
    ELSE IF ParsesFloat(s) THEN Num(CHOOSE i \in Digits : FloatText(i) = s)
    ELSE NaN

\* the dictionary of line 301; a text that is no key maps to NaN
bool_map(s) ==
    IF s \in {"True", "true", "1"} THEN Bool(TRUE)
    ELSE IF s \in {"False", "false", "0"} THEN Bool(FALSE)
    ELSE NaN

\* the texts the grid editor shows for table t (lines 262-264)
editable_df(t) ==
    [r \in 1..NRows(t) |->
        [i \in 1..Len(t.cols) |-> astype_str(t.dtypes[i], t.rows[r][i])]]

\* dtype of column i of final_df after the coercion of lines 292-307,
\* original being the working table and texts the editor's result
CoercedDtype(original, texts, i) ==
    LET d == original.dtypes[i]
        col == {texts[r][i] : r \in 1..Len(texts)}
    IN  IF d \in {"int64", "float64"}
        THEN (IF \A s \in col : ParsesInt(s) THEN "int64" ELSE "float64")
        ELSE IF d = "bool"
        THEN (IF \A s \in col : ~IsNull(bool_map(s)) THEN "bool" ELSE "object")
        ELSE "object"

CoercedCell(original, texts, r, i) ==
    LET d == original.dtypes[i]
    IN  IF d \in {"int64", "float64"} THEN to_numeric(texts[r][i])
        ELSE IF d = "bool" THEN bool_map(texts[r][i])
        ELSE Str(texts[r][i])

\* final_df of "Save Changes" (lines 289-309)
save_changes(original, texts) ==
    Table(original.cols,
          [i \in 1..Len(original.cols) |-> CoercedDtype(original, texts, i)],
          [r \in 1..Len(texts) |->
              [i \in 1..Len(original.cols) |-> CoercedCell(original, texts, r, i)]])

(***************************************************************************)
(* The transforms, as the pandas calls of the handlers compute them.       *)
(***************************************************************************)
\* edited_df[edited_df[col].isin(selected_values)]  (line 333)
filter_categorical(t, c, selected) ==
    KeepRows(t, {r \in 1..NRows(t) : Cell(t, r, c) \in selected})

\* edited_df[(edited_df[col] >= min_filter) & (edited_df[col] <= max_filter)]
\* (lines 349-352); a comparison with NaN is False
filter_numeric(t, c, lo, hi) ==
    KeepRows(t, {r \in 1..NRows(t) :
                    /\ ~IsNull(Cell(t, r, c))
                    /\ Cell(t, r, c).n >= lo
                    /\ Cell(t, r, c).n <= hi})

\* the texts that occur in cells, in Python's string order
TextOrder ==
    <<"0", "False", "TRUE", "True", "a", "nan", "x">>

\* the sort key of a non-null cell
SortKey(c) ==
    IF c.k = "str" THEN CHOOSE i \in 1..Len(TextOrder) : TextOrder[i] = c.s
    ELSE c.n

Perms(n) == {p \in [1..n -> 1..n] : \A i, j \in 1..n : p[i] = p[j] => i = j}

Reorder(t, p) == [t EXCEPT !.rows = [i \in 1..NRows(t) |-> t.rows[p[i]]]]

\* p[i] is the row that sort_values(by=c, ascending=asc) puts at place i
\* (line 363): non-null keys in order, then the rows with a null key in
\* their original order (na_position='last').  The default kind='quicksort'
\* is passed on to numpy's argsort, which promises no order among equal
\* keys: the order that results depends on the number of rows and on the
\* numpy build (insertion sort below 18 elements and median-of-three
\* partitioning from there on in the generic code, sorting networks in the
\* vectorised code for 64-bit numbers).
IsSortPerm(t, c, asc, p) ==
    LET n == NRows(t)
        key(i) == Cell(t, p[i], c)
        m == Cardinality({r \in 1..n : ~IsNull(Cell(t, r, c))})
    IN  /\ \A i \in 1..m : ~IsNull(key(i))
        /\ \A i, j \in 1..m :
              i < j => IF asc THEN SortKey(key(i)) <= SortKey(key(j))
                              ELSE SortKey(key(i)) >= SortKey(key(j))
        /\ \A i, j \in (m + 1)..n : i < j => p[i] < p[j]

\* edited_df.drop(columns=columns_to_remove)  (line 381)
drop_columns(t, remove) ==
    LET keep == {i \in 1..Len(t.cols) : t.cols[i] \notin remove}
    IN  Table(SelectIdx(t.cols, keep, 1),
              SelectIdx(t.dtypes, keep, 1),
              [r \in 1..NRows(t) |-> SelectIdx(t.rows[r], keep, 1)])

\* edited_df[new_column_name] = new_column_value, or = np.nan when the
\* value is empty (lines 392-395): an existing column of that name is
\* overwritten where it stands, a new one is appended
add_column(t, name, value) ==
    LET c == IF value = "" THEN NaN ELSE Str(value)
        d == IF value = "" THEN "float64" ELSE "object"
    IN  IF HasColumn(t, name)
        THEN LET i == ColIndex(t, name)
             IN  Table(t.cols,
                       [t.dtypes EXCEPT ![i] = d],
                       [r \in 1..NRows(t) |-> [t.rows[r] EXCEPT ![i] = c]])
        ELSE Table(Append(t.cols, name),
                   Append(t.dtypes, d),
                   [r \in 1..NRows(t) |-> Append(t.rows[r], c)])

\* cleaned_df.drop_duplicates(): the first of equal rows is kept (line 411);
\* an empty frame, one without a column or without a row, is returned as
\* it is, all its rows kept
drop_duplicates(t) ==
    IF Len(t.cols) = 0 \/ NRows(t) = 0 THEN t
    ELSE KeepRows(t, {r \in 1..NRows(t) :
                         \A q \in 1..(r - 1) : t.rows[q] # t.rows[r]})

\* cleaned_df.dropna(): rows without any null (line 416)
dropna(t) ==
    KeepRows(t, {r \in 1..NRows(t) : \A i \in 1..Len(t.cols) : ~IsNull(t.rows[r][i])})

Max(S) == CHOOSE x \in S : \A y \in S : x >= y

\* fillna re-infers the dtype of an object column it has filled: a column
\* left with booleans only becomes bool, one with numbers only int64, one
\* with nulls only float64; a column without a row stays object
infer_objects(t) ==
    [t EXCEPT !.dtypes =
        [i \in 1..Len(t.cols) |->
            LET kinds == {t.rows[r][i].k : r \in 1..NRows(t)}
            IN  IF t.dtypes[i] # "object" \/ kinds = {} THEN t.dtypes[i]
                ELSE IF kinds = {"bool"} THEN "bool"
                ELSE IF kinds = {"num"} THEN "int64"
                ELSE IF kinds = {"nan"} THEN "float64"
                ELSE "object"]]

\* fillna(method='ffill') / fillna(method='bfill')  (lines 423, 425)
ffill(t) ==
    infer_objects(
        [t EXCEPT !.rows =
            [r \in 1..NRows(t) |->
                [i \in 1..Len(t.cols) |->
                    LET prev == {q \in 1..(r - 1) : ~IsNull(t.rows[q][i])}
                    IN  IF IsNull(t.rows[r][i]) /\ prev # {}
                        THEN t.rows[Max(prev)][i] ELSE t.rows[r][i]]]])

bfill(t) ==
    infer_objects(
        [t EXCEPT !.rows =
            [r \in 1..NRows(t) |->
                [i \in 1..Len(t.cols) |->
                    LET next == {q \in (r + 1)..NRows(t) : ~IsNull(t.rows[q][i])}
                    IN  IF IsNull(t.rows[r][i]) /\ next # {}
                        THEN t.rows[Min(next)][i] ELSE t.rows[r][i]]]])

\* the fill method the handler sees: the selectbox of line 420 is created
\* inside the "Apply Cleaning" button's branch, so it exists only in the run
\* of the press and returns its first option there
fill_method == "Forward fill"

\* cleaned_df.fillna(0)  (line 427)
fill_zero(t) ==
    infer_objects(
        [t EXCEPT !.rows =
            [r \in 1..NRows(t) |->
                [i \in 1..Len(t.cols) |->
                    IF IsNull(t.rows[r][i]) THEN Num(0) ELSE t.rows[r][i]]]])

RECURSIVE SumCells(_, _, _)
SumCells(t, i, r) ==
    IF r > NRows(t) THEN 0
    ELSE (IF IsNull(t.rows[r][i]) THEN 0 ELSE t.rows[r][i].n) + SumCells(t, i, r + 1)

\* cleaned_df[col].mean(): the mean of the column's non-null values, NaN
\* when it has none.  Cell numbers are integers: a mean that is no integer
\* is held as the fraction sum/count, the count in the cell's text field.
column_mean(t, i) ==
    LET present == {r \in 1..NRows(t) : ~IsNull(t.rows[r][i])}
        sum == SumCells(t, i, 1)
        count == Cardinality(present)
    IN  IF present = {} THEN NaN
        ELSE IF sum % count = 0 THEN Num(sum \div count)
        ELSE [k |-> "num", n |-> sum, s |-> IntText(count)]

\* lines 429-431: the columns select_dtypes(include=[np.number]) keeps
fill_mean(t) ==
    [t EXCEPT !.rows =
        [r \in 1..NRows(t) |->
            [i \in 1..Len(t.cols) |->
                IF t.dtypes[i] \in {"int64", "float64"} /\ IsNull(t.rows[r][i])
                THEN column_mean(t, i) ELSE t.rows[r][i]]]]

\* lines 422-431
fill_missing(t, method) ==
    CASE method = "Forward fill" -> ffill(t)
      [] method = "Backward fill" -> bfill(t)
      [] method = "Fill with 0" -> fill_zero(t)
      [] method = "Fill with mean" -> fill_mean(t)

CleaningOptions == {"Remove duplicate rows", "Fill missing values",
                    "Remove rows with missing values", "Convert data types"}

\* the options of the selectbox of line 420
FillMethods == {"Forward fill", "Backward fill", "Fill with 0", "Fill with mean"}

\* what the user can pick in the selectbox, which is shown only when 'Fill
\* missing values' is among the selected operations (line 419)
FillChoices(options) ==
    IF "Fill missing values" \in options THEN FillMethods ELSE {None}

\* lines 408-431 in the code's order, for a given value of fill_method
cleaning_with(t, options, method) ==
    LET t1 == IF "Remove duplicate rows" \in options THEN drop_duplicates(t) ELSE t
        t2 == IF "Remove rows with missing values" \in options THEN dropna(t1) ELSE t1
    IN  IF "Fill missing values" \in options THEN fill_missing(t2, method) ELSE t2

\* cleaned_df of "Apply Cleaning" (lines 408-431)
apply_cleaning(t, options) == cleaning_with(t, options, fill_method)

\* df.to_excel(writer, index=False): the header and the cell values; a
\* null is written as an empty cell and the dtypes are not stored
to_excel(t) == [cols |-> t.cols, rows |-> t.rows]

(***************************************************************************)
(* The uploaded files and what pd.ExcelFile / pd.read_excel make of them.  *)
(***************************************************************************)
Files == {"two_sheets.xlsx", "one_sheet.xlsx", "corrupt.xlsx"}

SalesTable ==
    Table(<<"qty", "region">>, <<"float64", "object">>,
          << <<Num(1), Str("a")>>, <<NaN, Str("a")>>, <<Num(3), NaN>> >>)

InventoryTable ==
    Table(<<"paid">>, <<"bool">>, << <<Bool(TRUE)>>, <<Bool(FALSE)>> >>)

SummaryTable ==
    Table(<<"k">>, <<"int64">>, << <<Num(1)>> >>)

\* load_excel_data: (sheets_data, sheet_names), or (None, None) when parsing raises
load_excel_data(f) ==
    IF f = "two_sheets.xlsx" THEN
        [ok |-> TRUE,
         names |-> <<"Sales", "Inventory">>,
         sheets |-> [s \in {"Sales", "Inventory"} |->
                        IF s = "Sales" THEN SalesTable ELSE InventoryTable]]
    ELSE IF f = "one_sheet.xlsx" THEN
        [ok |-> TRUE,
         names |-> <<"Summary">>,
         sheets |-> [s \in {"Summary"} |-> SummaryTable]]
    ELSE
        [ok |-> FALSE, names |-> <<>>, sheets |-> EmptyMap]

(***************************************************************************)
(* The heap of DataFrame objects.                                          *)
(***************************************************************************)
Ids == 1..6

\* the objects still referenced by the session; the others are garbage
Collect(h, sd, ed) == Restrict(h, Range(sd) \cup Range(ed))

(***************************************************************************)
(* Initial state: lines 48-58.                                             *)
(***************************************************************************)
Init ==
    /\ uploaded_file = None
    /\ sheets_data = EmptyMap
    /\ sheet_names = <<>>
    /\ current_sheet = None
    /\ edited_data = EmptyMap
    /\ heap = EmptyMap
    /\ composed = EmptyMap
    /\ nops = 0

(***************************************************************************)
(* Upload page: main() lines 626-629 with display_file_upload.             *)
(***************************************************************************)
UploadFile(f) ==
    /\ uploaded_file = None
    /\ uploaded_file' = f
    /\ LET r == load_excel_data(f)
       IN  IF r.ok /\ DOMAIN r.sheets # {}
           THEN /\ sheets_data' = [s \in DOMAIN r.sheets |->
                                     CHOOSE i \in 1..Len(r.names) : r.names[i] = s]
                /\ sheet_names' = r.names
                /\ heap' = [i \in 1..Len(r.names) |-> r.sheets[r.names[i]]]
           ELSE UNCHANGED <<sheets_data, sheet_names, heap>>
    /\ UNCHANGED <<current_sheet, edited_data, composed, nops>>

\* "Upload New File" forgetting to clear edited_data and current_sheet
UploadNewFileKeepingEdits ==
    /\ uploaded_file # None
    /\ uploaded_file' = None
    /\ sheets_data' = EmptyMap
    /\ sheet_names' = <<>>
    /\ heap' = Collect(heap, sheets_data', edited_data)
    /\ UNCHANGED <<current_sheet, edited_data, composed, nops>>

\* sidebar button "Upload New File": main() lines 644-650
UploadNewFile ==
    /\ uploaded_file # None
    /\ uploaded_file' = None
    /\ sheets_data' = EmptyMap
    /\ sheet_names' = <<>>
    /\ current_sheet' = None
    /\ edited_data' = EmptyMap
    /\ heap' = Collect(heap, sheets_data', edited_data')
    /\ composed' = Restrict(composed, DOMAIN edited_data')
    /\ UNCHANGED nops

(***************************************************************************)
(* Data Explorer page: the sheet selector (lines 162-166).                 *)
(***************************************************************************)
SelectSheet(s) ==
    /\ uploaded_file # None
    /\ s \in SeqToSet(sheet_names)
    /\ current_sheet' = s
    /\ UNCHANGED <<uploaded_file, sheets_data, sheet_names, edited_data, heap,
                   composed, nops>>

(***************************************************************************)
(* Data Manipulation page (display_data_manipulation).                     *)
(***************************************************************************)
\* the identity given to a new object of the current sheet: any identity
\* that nothing refers to will do, and the choice is a fixed one per sheet
\* and dictionary where that is free
NewId(others, intoBaseline) ==
    LET i == CHOOSE j \in 1..Len(sheet_names) : sheet_names[j] = current_sheet
        slot == IF intoBaseline THEN i ELSE Len(sheet_names) + i
    IN  IF slot \notin others THEN slot ELSE Min(Ids \ others)

\* the object a dictionary entry is set to: a new object holding table t,
\* the entry's old object being dropped unless something else refers to it
StoreIn(h, sd, ed, intoBaseline, t) ==
    LET others == IF intoBaseline
                  THEN {sd[s] : s \in DOMAIN sd \ {current_sheet}} \cup Range(ed)
                  ELSE Range(sd) \cup {ed[s] : s \in DOMAIN ed \ {current_sheet}}
        id == NewId(others, intoBaseline)
        sd2 == IF intoBaseline THEN MapPut(sd, current_sheet, id) ELSE sd
        ed2 == IF intoBaseline THEN ed ELSE MapPut(ed, current_sheet, id)
    IN  [heap |-> Collect(MapPut(h, id, t), sd2, ed2), baseline |-> sd2, edited |-> ed2]

\* the first visit storing the baseline object itself, without .copy()
EnterManipulationNoCopy(h, sd, ed) ==
    IF current_sheet \in DOMAIN ed
    THEN [heap |-> h, baseline |-> sd, edited |-> ed]
    ELSE [heap |-> h, baseline |-> sd, edited |-> MapPut(ed, current_sheet, sd[current_sheet])]

\* lines 238-244, run by every visit of the page: the sheet's first visit
\* stores a copy of the baseline table as its working entry
EnterManipulation(h, sd, ed) ==
    IF current_sheet \in DOMAIN ed
    THEN [heap |-> h, baseline |-> sd, edited |-> ed]
    ELSE StoreIn(h, sd, ed, FALSE, h[sd[current_sheet]])

\* the handlers reading the baseline table where they should read the
\* working one
edited_df_from_baseline(e) == e.heap[e.baseline[current_sheet]]

\* line 246: the working table the handlers read
edited_df(e) == e.heap[e.edited[current_sheet]]

\* line 240: df, a copy of the baseline table
df(e) == e.heap[e.baseline[current_sheet]]

\* the page is shown for a selected sheet (line 234)
OnManipulationPage ==
    /\ uploaded_file # None
    /\ current_sheet # None

Entered == EnterManipulation(heap, sheets_data, edited_data)

\* what the transforms composed so far give for the current sheet
ComposedInput ==
    IF current_sheet \in DOMAIN composed
    THEN composed[current_sheet]
    ELSE heap[sheets_data[current_sheet]]

\* st.session_state.edited_data[current_sheet] = result, result a new object
SetWorking(e, result) ==
    LET s == StoreIn(e.heap, e.baseline, e.edited, FALSE, result)
    IN  /\ heap' = s.heap
        /\ edited_data' = s.edited

\* a button whose handler computes a new table was pressed
Pressed ==
    /\ nops' = nops + 1
    /\ UNCHANGED <<uploaded_file, sheets_data, sheet_names, current_sheet>>

CanPress ==
    /\ OnManipulationPage
    /\ nops < MaxOps

\* the page is shown and no button is pressed
OpenManipulation ==
    /\ OnManipulationPage
    /\ LET e == Entered
       IN  /\ heap' = e.heap
           /\ edited_data' = e.edited
    /\ composed' = MapPut(composed, current_sheet, ComposedInput)
    /\ UNCHANGED <<uploaded_file, sheets_data, sheet_names, current_sheet, nops>>

\* the texts a user types into a cell of the grid editor
EditTexts == {"TRUE", "0"}

NoEdit == [r |-> 0, i |-> 0, txt |-> ""]

\* what a user can do in the grid showing table t before pressing "Save
\* Changes": nothing, or retype one cell
Edits(t) ==
    {NoEdit} \cup [r : 1..NRows(t), i : 1..Len(t.cols), txt : EditTexts]

\* the editor's result (line 277): the shown texts with the edit applied
edited_df_result(t, edit) ==
    IF edit = NoEdit THEN editable_df(t)
    ELSE [editable_df(t) EXCEPT ![edit.r][edit.i] = edit.txt]

\* "Save Changes" (lines 287-310)
SaveChanges(edit) ==
    /\ CanPress
    /\ LET e == Entered
           t == edited_df(e)
           c == ComposedInput
       IN  /\ edit \in Edits(t)
           /\ SetWorking(e, save_changes(t, edited_df_result(t, edit)))
           /\ composed' = MapPut(composed, current_sheet,
                                 save_changes(c, edited_df_result(c, edit)))
    /\ Pressed

\* "Reset to Original" (lines 312-314)
ResetToOriginal ==
    /\ OnManipulationPage
    /\ LET e == Entered
       IN  SetWorking(e, df(e))
    /\ composed' = MapPut(composed, current_sheet, heap[sheets_data[current_sheet]])
    /\ UNCHANGED <<uploaded_file, sheets_data, sheet_names, current_sheet, nops>>

\* the multiselect of line 326: the non-null values of the column
unique_values(t, c) ==
    {Cell(t, r, c) : r \in {q \in 1..NRows(t) : ~IsNull(Cell(t, q, c))}}

\* "Apply Filter" on a column of dtype object (lines 323-335)
ApplyFilterCategorical(c, selected) ==
    /\ CanPress
    /\ LET e == Entered
           t == edited_df(e)
       IN  /\ HasColumn(t, c)
           /\ Dtype(t, c) \in {"object", "string"}
           /\ selected \subseteq unique_values(t, c)
           /\ SetWorking(e, filter_categorical(t, c, selected))
    /\ composed' = MapPut(composed, current_sheet,
                          filter_categorical(ComposedInput, c, selected))
    /\ Pressed

\* "Apply Filter" on a column of any other dtype (lines 337-354): int64,
\* float64 and bool columns alike, a boolean comparing as 0 or 1
ApplyFilterNumeric(c, lo, hi) ==
    /\ CanPress
    /\ LET e == Entered
           t == edited_df(e)
       IN  /\ HasColumn(t, c)
           /\ Dtype(t, c) \notin {"object", "string"}
           /\ SetWorking(e, filter_numeric(t, c, lo, hi))
    /\ composed' = MapPut(composed, current_sheet,
                          filter_numeric(ComposedInput, c, lo, hi))
    /\ Pressed

\* "Apply Sort" (lines 359-365)
ApplySort(c, asc, p) ==
    /\ CanPress
    /\ LET e == Entered
           t == edited_df(e)
       IN  /\ HasColumn(t, c)
           /\ p \in Perms(NRows(t))
           /\ IsSortPerm(t, c, asc, p)
           /\ SetWorking(e, Reorder(t, p))
    /\ composed' = MapPut(composed, current_sheet, Reorder(ComposedInput, p))
    /\ Pressed

\* "Remove Selected Columns" (lines 379-383)
RemoveColumns(remove) ==
    /\ CanPress
    /\ remove # {}
    /\ LET e == Entered
           t == edited_df(e)
       IN  /\ remove \subseteq SeqToSet(t.cols)
           /\ SetWorking(e, drop_columns(t, remove))
    /\ composed' = MapPut(composed, current_sheet, drop_columns(ComposedInput, remove))
    /\ Pressed

\* the names and default values a user gives to "Add Column"
NewColumnNames == {"flag", "qty"}
NewColumnValues == {"", "x"}

\* "Add Column" (lines 390-397): the column is assigned on the working
\* table object itself, and the entry is set to that same object
AddColumn(name, value) ==
    /\ CanPress
    /\ LET e == Entered
       IN  /\ heap' = [e.heap EXCEPT ![e.edited[current_sheet]] =
                           add_column(edited_df(e), name, value)]
           /\ edited_data' = e.edited
    /\ composed' = MapPut(composed, current_sheet, add_column(ComposedInput, name, value))
    /\ Pressed

\* "Apply Cleaning" (lines 407-434).  chosen is the option the user picks
\* in the "Fill method:" selectbox: the selectbox is first shown by the run
\* of the press, after the handler read its default, and picking an option
\* starts a run in which the button is not pressed and nothing is applied.
ApplyCleaning(options, chosen) ==
    /\ CanPress
    /\ chosen \in FillChoices(options)
    /\ LET e == Entered
       IN  SetWorking(e, apply_cleaning(edited_df(e), options))
    /\ composed' = MapPut(composed, current_sheet, apply_cleaning(ComposedInput, options))
    /\ Pressed

\* "Save All Changes to Session" (lines 442-444)
SaveAllChanges ==
    /\ OnManipulationPage
    /\ LET e == Entered
           s == StoreIn(e.heap, e.baseline, e.edited, TRUE, edited_df(e))
       IN  /\ heap' = s.heap
           /\ sheets_data' = s.baseline
           /\ edited_data' = s.edited
    /\ composed' = MapPut(composed, current_sheet, ComposedInput)
    /\ UNCHANGED <<uploaded_file, sheet_names, current_sheet, nops>>

(***************************************************************************)
(* Export Data page (export_data, lines 585-619).                          *)
(***************************************************************************)
\* the workbook written for the download button (lines 598-602); nothing
\* is written when edited_data is empty (lines 589-591)
export_data ==
    IF DOMAIN edited_data = {}
    THEN EmptyMap
    ELSE [s \in DOMAIN edited_data |-> to_excel(heap[edited_data[s]])]

\* the page is shown: it reads the session and changes nothing in it
ExportData ==
    /\ uploaded_file # None
    /\ UNCHANGED vars

(***************************************************************************)
(* What the widgets of the page offer in the current state.                *)
(***************************************************************************)
WorkingTable == edited_df(Entered)

WorkingColumns == SeqToSet(WorkingTable.cols)

\* the minimum and maximum a user gives to the numeric filter
FilterBounds == {0, 2, 4}

Next ==
    \/ \E f \in Files : UploadFile(f)
    \/ UploadNewFile
    \/ \E s \in SeqToSet(sheet_names) : SelectSheet(s)
    \/ OpenManipulation
    \/ CanPress /\ \E edit \in Edits(WorkingTable) : SaveChanges(edit)
    \/ ResetToOriginal
    \/ CanPress /\ \E c \in WorkingColumns :
          \E selected \in SUBSET unique_values(WorkingTable, c) : ApplyFilterCategorical(c, selected)
    \/ CanPress /\ \E c \in WorkingColumns :
          \E lo \in FilterBounds, hi \in FilterBounds : ApplyFilterNumeric(c, lo, hi)
    \/ CanPress /\ \E c \in WorkingColumns, asc \in BOOLEAN :
          \E p \in Perms(NRows(WorkingTable)) : ApplySort(c, asc, p)
    \/ CanPress /\ \E remove \in SUBSET WorkingColumns : RemoveColumns(remove)
    \/ \E name \in NewColumnNames, value \in NewColumnValues : AddColumn(name, value)
    \/ \E options \in SUBSET CleaningOptions :
          \E chosen \in FillChoices(options) : ApplyCleaning(options, chosen)
    \/ SaveAllChanges
    \/ ExportData

Spec == Init /\ [][Next]_vars

(***************************************************************************)
(* Properties.                                                             *)
(***************************************************************************)
Baseline(s) == heap[sheets_data[s]]

Working(s) == heap[edited_data[s]]

\* the table the loader produced for sheet s of the workbook held
AsLoaded(s) == load_excel_data(uploaded_file).sheets[s]

Loaded == DOMAIN sheets_data # {}

\* C1: between a successful load and the next "Upload New File", the
\* baseline table of every sheet equals the table the loader produced for it.
C1_BaselineStaysAsLoaded ==
    \A s \in DOMAIN sheets_data : Baseline(s) = AsLoaded(s)

\* C2: an export produced after a successful load holds exactly one sheet
\* per sheet name of the workbook: the working table where the sheet has a
\* working entry, the baseline table where it has none.
C2_ExportHasEverySheet ==
    (Loaded /\ DOMAIN edited_data # {}) =>
        export_data = [s \in DOMAIN sheets_data |->
                          to_excel(IF s \in DOMAIN edited_data
                                   THEN Working(s) ELSE Baseline(s))]

\* C3: an upload whose parsing fails leaves uploaded_file, the baseline
\* mapping, the sheet-name list, the current sheet and the working mapping
\* as they were.
C3_FailedLoadLeavesSession ==
    [][\A f \in Files :
          (~load_excel_data(f).ok /\ UploadFile(f)) => UNCHANGED session]_vars

\* C4: every sheet's working table is the composition, in the order of
\* their application, of the transforms applied to it, starting from the
\* copy of the baseline table its working entry started as; and the export
\* holds that table for the sheet.
C4_TransformsCompose ==
    \A s \in DOMAIN edited_data :
        /\ s \in DOMAIN composed
        /\ Working(s) = composed[s]
        /\ export_data[s] = to_excel(composed[s])

\* C4's case: Sales filtered to the two rows with a quantity, then sorted
\* by quantity in descending order
C4_FilterThenSort ==
    /\ "Sales" \in DOMAIN edited_data
    /\ Working("Sales").rows = << <<Num(3), NaN>>, <<Num(1), Str("a")>> >>
    /\ Baseline("Sales") = SalesTable
    /\ export_data["Sales"].rows = Working("Sales").rows

\* C5: a press of a transform button (filter, sort, add column, remove
\* columns, cleaning, Save Changes) leaves the baseline table of every sheet
\* and the working entry of every sheet other than the current one as
\* they were.
C5_TransformFrame ==
    [][nops' # nops =>
          /\ DOMAIN sheets_data' = DOMAIN sheets_data
          /\ \A s \in DOMAIN sheets_data : heap'[sheets_data'[s]] = Baseline(s)
          /\ DOMAIN edited_data' = DOMAIN edited_data \cup {current_sheet}
          /\ \A s \in DOMAIN edited_data \ {current_sheet} :
                heap'[edited_data'[s]] = Working(s)]_vars

\* C5's case: a column was added in place to the working table of one
\* sheet while another sheet has a working entry too
C5_ColumnAddedInPlace ==
    \E s \in DOMAIN edited_data :
        /\ HasColumn(Working(s), "flag")
        /\ ~HasColumn(Baseline(s), "flag")
        /\ DOMAIN edited_data # {s}

\* C6: after "Reset to Original" the sheet's working table equals the
\* table as it was loaded from the uploaded file.
C6_ResetGivesLoadedTable ==
    [][ResetToOriginal => heap'[edited_data'[current_sheet]] = AsLoaded(current_sheet)]_vars

\* C7: every key of the working mapping is a key of the baseline mapping,
\* and the current sheet is undefined or a key of the baseline mapping.
C7_WorkingKeysInBaseline ==
    /\ DOMAIN edited_data \subseteq DOMAIN sheets_data
    /\ current_sheet = None \/ current_sheet \in DOMAIN sheets_data

\* C7's case: a second workbook is loaded after tables of an earlier one
\* were edited (edits were made, and no working entry is left of them)
C7_LaterWorkbookLoaded ==
    /\ nops > 0
    /\ uploaded_file = "one_sheet.xlsx"
    /\ DOMAIN sheets_data = {"Summary"}
    /\ DOMAIN edited_data = {}
    /\ current_sheet = None

\* C8: "Add Column" with the name of an existing column of the working
\* table leaves the working table as it was.
C8_DuplicateAddIsNoOp ==
    [][OnManipulationPage =>
          \A name \in NewColumnNames, value \in NewColumnValues :
              (HasColumn(WorkingTable, name) /\ AddColumn(name, value))
                  => heap'[edited_data'[current_sheet]] = WorkingTable]_vars

\* C9: a numeric filter with minimum greater than maximum leaves the rows
\* of the working table as they were.
C9_InvertedRangeIsNoOp ==
    [][OnManipulationPage =>
          \A c \in WorkingColumns, lo \in FilterBounds, hi \in FilterBounds :
              (lo > hi /\ ApplyFilterNumeric(c, lo, hi))
                  => heap'[edited_data'[current_sheet]].rows = WorkingTable.rows]_vars

Lower(s) ==
    CASE s \in {"TRUE", "True"} -> "true"
      [] s \in {"FALSE", "False"} -> "false"
      [] OTHER -> s

\* the coercion C10 describes: any casing of true/false, or 1/0
CaseInsensitiveBool(s) ==
    IF Lower(s) \in {"true", "1"} THEN Bool(TRUE)
    ELSE IF Lower(s) \in {"false", "0"} THEN Bool(FALSE)
    ELSE NaN

\* C10: "Save Changes" turns every cell of a boolean-typed column into
\* true for any casing of 'true' or '1', false for any casing of 'false' or
\* '0', and null for any other text.
C10_BoolCoercionIgnoresCase ==
    [][OnManipulationPage =>
          \A edit \in Edits(WorkingTable) :
              SaveChanges(edit) =>
                  \A i \in 1..Len(WorkingTable.cols) :
                      WorkingTable.dtypes[i] = "bool" =>
                          \A r \in 1..NRows(WorkingTable) :
                              heap'[edited_data'[current_sheet]].rows[r][i] =
                                  CaseInsensitiveBool(
                                      edited_df_result(WorkingTable, edit)[r][i])]_vars

\* the cell that the coercion rule of a column of dtype d makes of text s
\* (the three branches of lines 296-304)
CoercedBy(d, s) ==
    IF d \in {"int64", "float64"} THEN to_numeric(s)
    ELSE IF d = "bool" THEN bool_map(s)
    ELSE Str(s)

\* C11: on every "Save Changes", each column of the working table that the
\* baseline table has too is coerced by the rule of its dtype in the
\* baseline table: parsed as a number where the baseline column is numeric,
\* mapped to a boolean where it is boolean, kept as text otherwise.
C11_RuleFromBaselineType ==
    [][OnManipulationPage =>
          \A edit \in Edits(WorkingTable) :
              SaveChanges(edit) =>
                  \A i \in 1..Len(WorkingTable.cols) :
                      HasColumn(Baseline(current_sheet), WorkingTable.cols[i]) =>
                          \A r \in 1..NRows(WorkingTable) :
                              heap'[edited_data'[current_sheet]].rows[r][i] =
                                  CoercedBy(Dtype(Baseline(current_sheet),
                                                  WorkingTable.cols[i]),
                                            edited_df_result(WorkingTable, edit)[r][i])]_vars

\* C12: "Apply Cleaning" with 'Fill missing values' fills the working table
\* by the strategy the user chose among forward fill, backward fill, zero
\* and column mean; with 'Fill with mean' every null of a numeric column
\* becomes the mean of the column's non-null values in the current rows and
\* the other columns stay as they are.
C12_FillAsChosen ==
    [][OnManipulationPage =>
          \A options \in SUBSET CleaningOptions, chosen \in FillMethods :
              ("Fill missing values" \in options /\ ApplyCleaning(options, chosen))
                  => heap'[edited_data'[current_sheet]] =
                         cleaning_with(WorkingTable, options, chosen)]_vars

\* p keeps rows with equal values in column c of t in their relative order
IsStablePerm(t, c, p) ==
    \A i, j \in 1..NRows(t) :
        (i < j /\ Cell(t, p[i], c) = Cell(t, p[j], c)) => p[i] < p[j]

\* C13: "Apply Sort" is stable in both directions: the sorted working table
\* is the working table reordered so that any two rows with equal values in
\* the sort column keep the relative order they had before the sort.
C13_SortIsStable ==
    [][OnManipulationPage =>
          \A c \in WorkingColumns, asc \in BOOLEAN :
              (\E p \in Perms(NRows(WorkingTable)) : ApplySort(c, asc, p)) =>
                  \E q \in Perms(NRows(WorkingTable)) :
                      /\ IsSortPerm(WorkingTable, c, asc, q)
                      /\ IsStablePerm(WorkingTable, c, q)
                      /\ heap'[edited_data'[current_sheet]] = Reorder(WorkingTable, q)]_vars

\* C14: "Save Changes" pressed without an edit of any cell leaves the
\* working table with the same columns, the same rows, the same value in
\* every cell and the same null cells, those of text columns included.
C14_SaveWithoutEditIsNoOp ==
    [][(OnManipulationPage /\ SaveChanges(NoEdit)) =>
          /\ heap'[edited_data'[current_sheet]].cols = WorkingTable.cols
          /\ heap'[edited_data'[current_sheet]].rows = WorkingTable.rows]_vars

====
